---- MODULE Spec2Model ----
(***************************************************************************)
(* Model of retirement_savings.ipynb: the two functions of the notebook,   *)
(* retirement_savings (the closed-form future value, rounded to 2          *)
(* decimals) and retirement_savings_report (the year-by-year table).       *)
(*                                                                         *)
(* The notebook computes in Python floats, i.e. IEEE-754 binary64 with     *)
(* round-to-nearest-even.  The model keeps that arithmetic: a float is a   *)
(* sign, a 53-bit mantissa and an exponent, and +, -, *, /, ** and the     *)
(* '.2f' formatting round exactly as the interpreter does.  TLC's integers *)
(* are 32 bits wide, so mantissas and the intermediate products are held   *)
(* as natural numbers in base 2^15, least significant limb first.          *)
(***************************************************************************)
EXTENDS Integers, Sequences, FiniteSets, TLC

(***************************************************************************)
(* Natural numbers of any size: a sequence of limbs in base 2^15, least    *)
(* significant first, no leading zero limb; << >> is zero.                 *)
(***************************************************************************)
LimbBits == 15

Base == 2 ^ LimbBits

Max(a, b) == IF a >= b THEN a ELSE b

RECURSIVE Pow2(_)
Pow2(k) == IF k = 0 THEN 1 ELSE 2 * Pow2(k - 1)

RECURSIVE Norm(_)
Norm(a) ==
    IF a = << >> THEN << >>
    ELSE IF a[Len(a)] = 0 THEN Norm(SubSeq(a, 1, Len(a) - 1))
    ELSE a

Limb(a, i) == IF i <= Len(a) THEN a[i] ELSE 0

RECURSIVE BigOfInt(_)
BigOfInt(k) == IF k = 0 THEN << >> ELSE <<k % Base>> \o BigOfInt(k \div Base)

RECURSIVE AddC(_, _, _, _)
AddC(a, b, i, carry) ==
    IF i > Len(a) /\ i > Len(b)
    THEN (IF carry = 0 THEN << >> ELSE <<carry>>)
    ELSE LET s == Limb(a, i) + Limb(b, i) + carry
         IN  <<s % Base>> \o AddC(a, b, i + 1, s \div Base)

BigAdd(a, b) == AddC(a, b, 1, 0)

\* a - b for a >= b
RECURSIVE SubC(_, _, _, _)
SubC(a, b, i, borrow) ==
    IF i > Len(a) THEN << >>
    ELSE LET d == a[i] - Limb(b, i) - borrow
         IN  IF d < 0 THEN <<d + Base>> \o SubC(a, b, i + 1, 1)
             ELSE <<d>> \o SubC(a, b, i + 1, 0)

BigSub(a, b) == Norm(SubC(a, b, 1, 0))

\* -1, 0, 1 as a < b, a = b, a > b
RECURSIVE CmpFrom(_, _, _)
CmpFrom(a, b, i) ==
    IF i = 0 THEN 0
    ELSE IF a[i] < b[i] THEN -1
    ELSE IF a[i] > b[i] THEN 1
    ELSE CmpFrom(a, b, i - 1)

BigCmp(a, b) ==
    IF Len(a) < Len(b) THEN -1
    ELSE IF Len(a) > Len(b) THEN 1
    ELSE CmpFrom(a, b, Len(a))

\* a * k for 0 <= k < Base
RECURSIVE MulSmallC(_, _, _, _)
MulSmallC(a, k, i, carry) ==
    IF i > Len(a)
    THEN (IF carry = 0 THEN << >> ELSE <<carry>>)
    ELSE LET s == a[i] * k + carry
         IN  <<s % Base>> \o MulSmallC(a, k, i + 1, s \div Base)

MulSmall(a, k) == IF k = 0 THEN << >> ELSE MulSmallC(a, k, 1, 0)

ShiftLimb(a) == IF a = << >> THEN << >> ELSE <<0>> \o a

RECURSIVE BigMul(_, _)
BigMul(a, b) ==
    IF b = << >> \/ a = << >> THEN << >>
    ELSE BigAdd(MulSmall(a, Head(b)), ShiftLimb(BigMul(a, Tail(b))))

RECURSIVE SmallBitLen(_)
SmallBitLen(k) == IF k = 0 THEN 0 ELSE 1 + SmallBitLen(k \div 2)

BitLen(a) ==
    IF a = << >> THEN 0
    ELSE LimbBits * (Len(a) - 1) + SmallBitLen(a[Len(a)])

RECURSIVE Zeros(_)
Zeros(k) == IF k = 0 THEN << >> ELSE <<0>> \o Zeros(k - 1)

ShiftLeft(a, k) ==
    IF a = << >> THEN << >>
    ELSE Zeros(k \div LimbBits) \o MulSmall(a, Pow2(k % LimbBits))

\* floor(a / d) for 0 < d <= Base, most significant limb first
RECURSIVE DivSmallC(_, _, _, _)
DivSmallC(a, d, i, rem) ==
    IF i = 0 THEN << >>
    ELSE LET cur == rem * Base + a[i]
         IN  DivSmallC(a, d, i - 1, cur % d) \o <<cur \div d>>

DivSmall(a, d) == Norm(DivSmallC(a, d, Len(a), 0))

ShiftRight(a, k) ==
    IF k \div LimbBits >= Len(a) THEN << >>
    ELSE DivSmall(SubSeq(a, k \div LimbBits + 1, Len(a)), Pow2(k % LimbBits))

TestBit(a, i) == (Limb(a, i \div LimbBits + 1) \div Pow2(i % LimbBits)) % 2 = 1

\* whether a mod 2^k /= 0
LowNonZero(a, k) ==
    \/ \E i \in 1..(k \div LimbBits) : Limb(a, i) /= 0
    \/ Limb(a, k \div LimbBits + 1) % Pow2(k % LimbBits) /= 0

\* The largest digit q < Base with q * b <= rem, found bit by bit.
RECURSIVE QuoDigit(_, _, _, _)
QuoDigit(rem, b, q, j) ==
    IF j < 0 THEN q
    ELSE IF BigCmp(MulSmall(b, q + Pow2(j)), rem) <= 0
         THEN QuoDigit(rem, b, q + Pow2(j), j - 1)
         ELSE QuoDigit(rem, b, q, j - 1)

\* Long division, most significant limb first: <<quotient limbs, remainder>>
RECURSIVE DivModC(_, _, _, _)
DivModC(a, b, i, rem) ==
    IF i = 0 THEN [q |-> << >>, r |-> rem]
    ELSE LET cur  == Norm(<<a[i]>> \o rem)
             d    == QuoDigit(cur, b, 0, LimbBits - 1)
             rest == DivModC(a, b, i - 1, BigSub(cur, MulSmall(b, d)))
         IN  [q |-> rest.q \o <<d>>, r |-> rest.r]

\* floor(a / b) and a mod b, for b > 0
BigDivMod(a, b) ==
    LET dm == DivModC(a, b, Len(a), << >>)
    IN  [q |-> Norm(dm.q), r |-> dm.r]

RECURSIVE BigPow(_, _)
BigPow(a, n) == IF n = 0 THEN <<1>> ELSE BigMul(BigPow(a, n - 1), a)

(***************************************************************************)
(* Python floats.  A finite float is [s, m, e] with value                  *)
(* (-1)^s * m * 2^e, where m is zero or has exactly MantBits bits.  The    *)
(* inputs of the model keep every value far from the overflow and          *)
(* subnormal ranges, so the exponent is unbounded here; zero is kept with  *)
(* sign 0 (-0.0 == 0.0 in every comparison the notebook makes).            *)
(***************************************************************************)
MantBits == 53

GuardBits == MantBits + 3

Zero == [s |-> 0, m |-> << >>, e |-> 0]

IsZero(a) == a.m = << >>

\* Round (-1)^s * (N + f) * 2^e to the nearest float, ties to even, where
\* 0 <= f < 1 and sticky says whether f > 0.
RoundNearestEven(s, N, sticky, e) ==
    LET L == BitLen(N)
    IN  IF N = << >> THEN Zero
        ELSE IF L <= MantBits
        THEN [s |-> s, m |-> ShiftLeft(N, MantBits - L), e |-> e - (MantBits - L)]
        ELSE LET sh  == L - MantBits
                 q   == ShiftRight(N, sh)
                 rb  == TestBit(N, sh - 1)
                 low == sticky \/ LowNonZero(N, sh - 1)
                 up  == rb /\ (low \/ TestBit(q, 0))
                 m1  == IF up THEN BigAdd(q, <<1>>) ELSE q
             IN  IF BitLen(m1) > MantBits
                 THEN [s |-> s, m |-> ShiftRight(m1, 1), e |-> e + sh + 1]
                 ELSE [s |-> s, m |-> m1, e |-> e + sh]

\* int -> float, for an int k >= 0 (exact below 2^53)
FromInt(k) == RoundNearestEven(0, BigOfInt(k), FALSE, 0)

\* The float nearest to num / den (num >= 0, den > 0 as naturals): what the
\* interpreter makes of a decimal literal such as .07, and of float('6420.00').
FromRatio(num, den) ==
    IF num = << >> THEN Zero
    ELSE LET k  == Max(0, GuardBits + BitLen(den) - BitLen(num))
             dm == BigDivMod(ShiftLeft(num, k), den)
         IN  RoundNearestEven(0, dm.q, dm.r /= << >>, 0 - k)

FromDecimal(num, den) == FromRatio(BigOfInt(num), BigOfInt(den))

FNeg(a) == IF IsZero(a) THEN a ELSE [a EXCEPT !.s = 1 - a.s]

FAdd(a, b) ==
    IF IsZero(a) THEN b
    ELSE IF IsZero(b) THEN a
    ELSE LET emin == IF a.e <= b.e THEN a.e ELSE b.e
             A    == ShiftLeft(a.m, a.e - emin)
             B    == ShiftLeft(b.m, b.e - emin)
             c    == BigCmp(A, B)
         IN  IF a.s = b.s THEN RoundNearestEven(a.s, BigAdd(A, B), FALSE, emin)
             ELSE IF c = 0 THEN Zero
             ELSE IF c > 0 THEN RoundNearestEven(a.s, BigSub(A, B), FALSE, emin)
             ELSE RoundNearestEven(b.s, BigSub(B, A), FALSE, emin)

FSub(a, b) == FAdd(a, FNeg(b))

FMul(a, b) ==
    IF IsZero(a) \/ IsZero(b) THEN Zero
    ELSE RoundNearestEven((a.s + b.s) % 2, BigMul(a.m, b.m), FALSE, a.e + b.e)

\* a / b for b /= 0 (the caller raises ZeroDivisionError otherwise)
FDiv(a, b) ==
    IF IsZero(a) THEN Zero
    ELSE LET dm == BigDivMod(ShiftLeft(a.m, GuardBits), b.m)
         IN  RoundNearestEven((a.s + b.s) % 2, dm.q, dm.r /= << >>,
                              a.e - b.e - GuardBits)

\* x ** n for a float x > 0 and an int n >= 0: float_pow returns 1.0 for
\* n = 0 and calls the C library's pow otherwise, taken here as correctly
\* rounded.
FPow(x, n) ==
    IF n = 0 THEN FromInt(1)
    ELSE RoundNearestEven(0, BigPow(x.m, n), FALSE, x.e * n)

\* -1, 0, 1 as a < b, a == b, a > b
FCmpMag(a, b) ==
    IF IsZero(a) /\ IsZero(b) THEN 0
    ELSE IF IsZero(a) THEN -1
    ELSE IF IsZero(b) THEN 1
    ELSE IF a.e < b.e THEN -1
    ELSE IF a.e > b.e THEN 1
    ELSE BigCmp(a.m, b.m)

FCmp(a, b) ==
    IF a.s = 0 /\ b.s = 0 THEN FCmpMag(a, b)
    ELSE IF a.s = 1 /\ b.s = 1 THEN FCmpMag(b, a)
    ELSE IF a.s = 1 THEN -1
    ELSE 1

FLe(a, b) == FCmp(a, b) <= 0

FLt(a, b) == FCmp(a, b) < 0

\* |v| * 100 rounded to an integer, ties to even: the digits that
\* f'{v:.2f}' prints (the decimal expansion of the float's exact value,
\* correctly rounded).
Cents(v) ==
    IF IsZero(v) THEN << >>
    ELSE LET N == MulSmall(v.m, 100)
         IN  IF v.e >= 0 THEN ShiftLeft(N, v.e)
             ELSE LET sh  == 0 - v.e
                      q   == ShiftRight(N, sh)
                      rb  == TestBit(N, sh - 1)
                      low == LowNonZero(N, sh - 1)
                      up  == rb /\ (low \/ TestBit(q, 0))
                  IN  IF up THEN BigAdd(q, <<1>>) ELSE q

\* float(f'{v:.2f}')
Round2(v) ==
    LET f == FromRatio(Cents(v), <<100>>)
    IN  IF v.s = 1 THEN FNeg(f) ELSE f

(***************************************************************************)
(* retirement_savings(p, c, r, n, annuity): p, c and r are floats, n is an *)
(* int >= 0 and annuity a string.  The result is [err, val]: err is "none" *)
(* and val the returned float, or err names the exception raised.          *)
(***************************************************************************)
One == FromInt(1)

Returned(v) == [err |-> "none", val |-> v]

Raised(e) == [err |-> e, val |-> Zero]

\* InitialDeposit with simple interest, p * (1 + r * n)
InitialDepositSimple(p, r, n) == FMul(p, FAdd(One, FMul(r, FromInt(n))))

\* p * (1 + r) ** n
InitialDeposit(p, r, n) == FMul(p, FPow(FAdd(One, r), n))

\* AnnuityFactor with the operands of its subtraction swapped
AnnuityFactorSwapped(r, n) == FDiv(FSub(One, FPow(FAdd(One, r), n)), r)

\* AnnuityFactor without its "- 1"
AnnuityFactorNoMinusOne(r, n) == FDiv(FPow(FAdd(One, r), n), r)

\* ((1 + r)**n - 1) / r, for r /= 0
AnnuityFactor(r, n) == FDiv(FSub(FPow(FAdd(One, r), n), One), r)

\* c * (((1 + r)**n - 1) / r)
AnnuityImmediate(c, r, n) == FMul(c, AnnuityFactor(r, n))

\* AnnuityDue dividing by (1 + r) where the code multiplies
AnnuityDueDiscounted(c, r, n) == FDiv(FMul(c, AnnuityFactor(r, n)), FAdd(One, r))

\* AnnuityDue without its last factor (1 + r)
AnnuityDueNoExtraPeriod(c, r, n) == FMul(c, AnnuityFactor(r, n))

\* c * (((1 + r)**n - 1) / r) * (1 + r)
AnnuityDue(c, r, n) == FMul(FMul(c, AnnuityFactor(r, n)), FAdd(One, r))

\* retirement_savings returning the principal at n = 0 before it divides
retirement_savings_shortcut(p, c, r, n, annuity) ==
    IF n = 0 THEN Returned(Round2(p))
    ELSE IF annuity = "immediate"
    THEN IF IsZero(r) THEN Raised("ZeroDivisionError")
         ELSE Returned(Round2(FAdd(InitialDeposit(p, r, n), AnnuityImmediate(c, r, n))))
    ELSE IF annuity = "due"
    THEN IF IsZero(r) THEN Raised("ZeroDivisionError")
         ELSE Returned(Round2(FAdd(InitialDeposit(p, r, n), AnnuityDue(c, r, n))))
    ELSE Raised("TypeError")

\* retirement_savings adding no annuity term for a mode it does not know
retirement_savings_no_annuity(p, c, r, n, annuity) ==
    IF annuity = "immediate"
    THEN IF IsZero(r) THEN Raised("ZeroDivisionError")
         ELSE Returned(Round2(FAdd(InitialDeposit(p, r, n), AnnuityImmediate(c, r, n))))
    ELSE IF annuity = "due"
    THEN IF IsZero(r) THEN Raised("ZeroDivisionError")
         ELSE Returned(Round2(FAdd(InitialDeposit(p, r, n), AnnuityDue(c, r, n))))
    ELSE Returned(Round2(InitialDeposit(p, r, n)))

retirement_savings(p, c, r, n, annuity) ==
    IF annuity = "immediate"
    THEN IF IsZero(r) THEN Raised("ZeroDivisionError")
         ELSE Returned(Round2(FAdd(InitialDeposit(p, r, n), AnnuityImmediate(c, r, n))))
    ELSE IF annuity = "due"
    THEN IF IsZero(r) THEN Raised("ZeroDivisionError")
         ELSE Returned(Round2(FAdd(InitialDeposit(p, r, n), AnnuityDue(c, r, n))))
    \* any other string: annuity is still that string at initial_deposit + annuity
    ELSE Raised("TypeError")

(***************************************************************************)
(* The notebook's state: the arguments of a call, the locals of            *)
(* retirement_savings_report while its loop runs, and what the call        *)
(* handed back to the cell that made it.                                   *)
(***************************************************************************)
VARIABLES
    args,                 \* [p, c, r, n, annuity]: p, c, r floats, n an int, annuity a string
    pc,                   \* "idle", "loop", "returned", "raised"
    op,                   \* "none", "savings", "report": the function called
    year,                 \* the loop variable of retirement_savings_report
    years,
    contributions,
    cumul_contributions,
    interest,
    balance,
    fv,                   \* what retirement_savings returned: << >> or <<float>>
    report,               \* what retirement_savings_report returned: << >> or <<table>>
    exc                   \* the exception the call ended with, or "none"

vars == <<args, pc, op, year, years, contributions, cumul_contributions,
          interest, balance, fv, report, exc>>

locals == <<year, years, contributions, cumul_contributions, interest, balance>>

(***************************************************************************)
(* Bounds of the model, and the inputs the calls are made with.            *)
(***************************************************************************)
MaxPeriods == 6

MaxPrincipal == 1

MaxContribution == 1

\* A scenario gives the literals of a call in thousandths.
Den == 1000

\* the example of the notebook: retirement_savings(1000, 5000, .07, 20, annuity='due')
RefPrincipal == 1000

RefContribution == 5000

RefRatePercent == 7

RefPeriods == 20

Reference ==
    [p |-> RefPrincipal * Den, c |-> RefContribution * Den,
     r |-> RefRatePercent * 10, n |-> RefPeriods, annuity |-> "due"]

\* whole amounts and 0.125, which lies halfway between 0.12 and 0.13
Principals == {k * Den : k \in 0..MaxPrincipal} \cup {125}

\* whole amounts, 0.01 and 0.1
Contributions == {k * Den : k \in 0..MaxContribution} \cup {10, 100}

\* 0, 0.001 and 0.07
Rates == {0, 1, RefRatePercent * 10}

Annuities == {"immediate", "due", "other"}

Grid ==
    [p : Principals, c : Contributions, r : Rates, n : 0..MaxPeriods,
     annuity : Annuities]

Scenarios == Grid \cup {Reference}

\* the arguments as the interpreter passes them: the literals as floats
ArgsOf(sc) ==
    [p |-> FromDecimal(sc.p, Den), c |-> FromDecimal(sc.c, Den),
     r |-> FromDecimal(sc.r, Den), n |-> sc.n, annuity |-> sc.annuity]

Init ==
    /\ args \in {ArgsOf(sc) : sc \in Scenarios}
    /\ pc = "idle"
    /\ op = "none"
    /\ year = 0
    /\ years = << >>
    /\ contributions = << >>
    /\ cumul_contributions = << >>
    /\ interest = << >>
    /\ balance = << >>
    /\ fv = << >>
    /\ report = << >>
    /\ exc = "none"

(***************************************************************************)
(* A cell calls retirement_savings(p, c, r, n, annuity).                   *)
(***************************************************************************)
CallSavings ==
    /\ pc = "idle"
    /\ LET res == retirement_savings(args.p, args.c, args.r, args.n, args.annuity)
       IN  /\ pc' = IF res.err = "none" THEN "returned" ELSE "raised"
           /\ fv' = IF res.err = "none" THEN <<res.val>> ELSE << >>
           /\ exc' = res.err
    /\ op' = "savings"
    /\ UNCHANGED <<args, locals, report>>

(***************************************************************************)
(* A cell calls retirement_savings_report(p, c, r, n, annuity_type): the   *)
(* five lists start empty and the loop starts at year 0.                   *)
(***************************************************************************)
CallReport ==
    /\ pc = "idle"
    /\ pc' = "loop"
    /\ op' = "report"
    /\ year' = 0
    /\ years' = << >>
    /\ contributions' = << >>
    /\ cumul_contributions' = << >>
    /\ interest' = << >>
    /\ balance' = << >>
    /\ UNCHANGED <<args, fv, report, exc>>

\* The balance advanced year by year from the previous rounded balance:
\* round(b * (1 + r) + c, 2) for 'immediate', round((b + c) * (1 + r), 2)
\* for 'due', from round(p, 2).
RECURSIVE IncrementalValue(_, _, _, _, _)
IncrementalValue(p, c, r, y, annuity_type) ==
    IF y = 0 THEN Round2(p)
    ELSE IF annuity_type = "immediate"
    THEN Round2(FAdd(FMul(IncrementalValue(p, c, r, y - 1, annuity_type), FAdd(One, r)), c))
    ELSE Round2(FMul(FAdd(IncrementalValue(p, c, r, y - 1, annuity_type), c), FAdd(One, r)))

IncrementalBalance(p, c, r, y, annuity_type) ==
    IF annuity_type \notin {"immediate", "due"} THEN Raised("TypeError")
    ELSE IF IsZero(r) THEN Raised("ZeroDivisionError")
    ELSE Returned(IncrementalValue(p, c, r, y, annuity_type))

\* retirement_savings(p, c, r, year, annuity=annuity_type): the balance of
\* a year is computed from scratch
YearBalance(p, c, r, y, annuity_type) == retirement_savings(p, c, r, y, annuity_type)

\* interest.append(balance[year] - balance[year - 1] - c), or 0 in year 0;
\* Python's list index i is index i + 1 here
AppendInterest(int, bal, c, y) ==
    IF y > 0 THEN Append(int, FSub(FSub(bal[y + 1], bal[y]), c))
    ELSE Append(int, Zero)

\* AppendCumul counting a contribution in year 0 too
AppendCumulFromYearZero(cum, c, y) ==
    IF y > 0 THEN Append(cum, FAdd(cum[y], c))
    ELSE Append(cum, c)

\* cumul_contributions.append(cumul_contributions[year - 1] + c), or 0 in year 0
AppendCumul(cum, c, y) ==
    IF y > 0 THEN Append(cum, FAdd(cum[y], c))
    ELSE Append(cum, Zero)

\* range(n) where the code has range(n+1)
LoopRangeExclusive(n) == 0..(n - 1)

\* range(n+1)
LoopRange(n) == 0..n

\* the table handed to pd.DataFrame.from_dict
Table(ys, cs, cum, int, bal) ==
    [Year |-> ys, AnnualContribution |-> cs, CumulativeContributions |-> cum,
     Interest |-> int, Balance |-> bal]

\* LoopBody catching the exception and returning the rows built so far
LoopBodyPartial ==
    /\ pc = "loop"
    /\ year \in LoopRange(args.n)
    /\ years' = Append(years, year)
    /\ LET res == YearBalance(args.p, args.c, args.r, year, args.annuity)
       IN  IF res.err = "none"
           THEN /\ balance' = Append(balance, res.val)
                /\ contributions' = Append(contributions, args.c)
                /\ interest' = AppendInterest(interest, balance', args.c, year)
                /\ cumul_contributions' = AppendCumul(cumul_contributions, args.c, year)
                /\ year' = year + 1
                /\ UNCHANGED <<pc, exc, report>>
           ELSE /\ pc' = "returned"
                /\ exc' = "none"
                /\ report' = <<Table(years', contributions, cumul_contributions,
                                     interest, balance)>>
                /\ UNCHANGED <<year, contributions, cumul_contributions, interest, balance>>
    /\ UNCHANGED <<args, op, fv>>

\* One pass of the body of `for year in range(n+1)`.  When the call of
\* retirement_savings raises, the exception leaves the function: the year
\* was appended, nothing else, and nothing is returned.
LoopBody ==
    /\ pc = "loop"
    /\ year \in LoopRange(args.n)
    /\ years' = Append(years, year)
    /\ LET res == YearBalance(args.p, args.c, args.r, year, args.annuity)
       IN  IF res.err = "none"
           THEN /\ balance' = Append(balance, res.val)
                /\ contributions' = Append(contributions, args.c)
                /\ interest' = AppendInterest(interest, balance', args.c, year)
                /\ cumul_contributions' = AppendCumul(cumul_contributions, args.c, year)
                /\ year' = year + 1
                /\ UNCHANGED <<pc, exc>>
           ELSE /\ pc' = "raised"
                /\ exc' = res.err
                /\ UNCHANGED <<year, contributions, cumul_contributions, interest, balance>>
    /\ UNCHANGED <<args, op, fv, report>>

\* The loop is over: set up the report and return it.
ReturnReport ==
    /\ pc = "loop"
    /\ year \notin LoopRange(args.n)
    /\ report' = <<Table(years, contributions, cumul_contributions, interest, balance)>>
    /\ pc' = "returned"
    /\ UNCHANGED <<args, op, locals, fv, exc>>

Next == CallSavings \/ CallReport \/ LoopBody \/ ReturnReport

Spec == Init /\ [][Next]_vars

(***************************************************************************)
(* The claims.  A claim about a returned schedule is stated of the table   *)
(* that retirement_savings_report returned, a claim about project of the   *)
(* value (or exception) that retirement_savings ended with.                *)
(***************************************************************************)
ValidMode == args.annuity \in {"immediate", "due"}

\* principal >= 0 and contribution >= 0 hold of every scenario
ValidInputs == ValidMode /\ ~IsZero(args.r)

SavingsCalled == op = "savings"

SavingsReturned == op = "savings" /\ pc = "returned"

ReportReturned == op = "report" /\ pc = "returned"

Schedule == report[1]

\* project(p, c, r, y, mode) of the call's arguments, computed from scratch
Project(y, mode) == retirement_savings(args.p, args.c, args.r, y, mode)

\* C1: for valid inputs and every year y in 0..n, the balance of record y of
\* the returned schedule equals project(p, c, r, y, mode) evaluated from
\* scratch at y periods (the rounded closed form), not a value accumulated
\* from the previous record.
C1_BalanceIsProjectOfYear ==
    (ReportReturned /\ ValidInputs) =>
        /\ Len(Schedule.Balance) = args.n + 1
        /\ \A y \in 0..args.n :
              Schedule.Balance[y + 1] = Project(y, args.annuity).val

\* a returned schedule with a year whose closed-form balance differs from
\* the balance accumulated from the previous records
C1_Witness ==
    /\ ReportReturned /\ ValidInputs /\ args.n >= 2
    /\ Schedule.Balance[args.n + 1] = Project(args.n, args.annuity).val
    /\ Schedule.Balance[args.n + 1] /=
          IncrementalValue(args.p, args.c, args.r, args.n, args.annuity)

\* C2: in every returned schedule and for every year y with 0 < y <= n,
\* balance[y] == balance[y-1] + contribution + interest[y], with the
\* interest stored in record y.
C2_BalanceIdentity ==
    ReportReturned =>
        \A y \in 1..args.n :
            Schedule.Balance[y + 1] =
                FAdd(FAdd(Schedule.Balance[y], args.c), Schedule.Interest[y + 1])

\* C3: in every returned schedule and for every year y with 0 < y <= n,
\* cumulativeContributions[y] == cumulativeContributions[y-1] + contribution,
\* so that cumulativeContributions[y] == y * contribution, and the sequence
\* is non-decreasing.
C3_CumulativeContributions ==
    ReportReturned =>
        \A y \in 1..args.n :
            /\ Schedule.CumulativeContributions[y + 1] =
                   FAdd(Schedule.CumulativeContributions[y], args.c)
            /\ Schedule.CumulativeContributions[y + 1] = FMul(FromInt(y), args.c)
            /\ FLe(Schedule.CumulativeContributions[y],
                   Schedule.CumulativeContributions[y + 1])

\* C4: for all valid inputs, record 0 of the returned schedule has
\* balance == project(p, c, r, 0, mode), interest == 0 and
\* cumulativeContributions == 0.
C4_RecordZero ==
    (op = "report" /\ ValidInputs /\ pc /= "idle") =>
        /\ pc /= "raised"
        /\ (pc = "returned") =>
              /\ Schedule.Year[1] = 0
              /\ Schedule.Balance[1] = Project(0, args.annuity).val
              /\ Schedule.Interest[1] = Zero
              /\ Schedule.CumulativeContributions[1] = Zero

\* a returned schedule of several years with a contribution > 0 and a
\* principal > 0
C4_Witness ==
    /\ ReportReturned /\ ValidInputs /\ args.n >= 1
    /\ ~IsZero(args.c) /\ ~IsZero(args.p)
    /\ Schedule.Balance[1] = Round2(args.p)
    /\ Schedule.CumulativeContributions[1] = Zero

\* C5: with periods == 0, project(p, c, r, 0, mode) returns the principal
\* rounded to 2 decimals, for either mode, any rate > 0 and any
\* contribution.
C5_ZeroPeriods ==
    (SavingsCalled /\ ValidInputs /\ args.n = 0) =>
        /\ pc = "returned"
        /\ fv = <<Round2(args.p)>>

\* project returned at 0 periods with a contribution > 0 and a principal
\* that the rounding changes (0.125 -> 0.12)
C5_Witness ==
    /\ SavingsReturned /\ args.n = 0 /\ ~IsZero(args.c)
    /\ fv /= <<args.p>>
    /\ fv = <<FromDecimal(12, 100)>>

\* C6: for every n >= 0 the returned schedule has exactly n + 1 records,
\* with years 0, 1, ..., n in ascending order, and every record's
\* annualContribution equals the contribution; periods == 0 yields exactly
\* one record.
C6_RecordsAndYears ==
    ReportReturned =>
        /\ Len(Schedule.Year) = args.n + 1
        /\ Len(Schedule.AnnualContribution) = args.n + 1
        /\ Len(Schedule.CumulativeContributions) = args.n + 1
        /\ Len(Schedule.Interest) = args.n + 1
        /\ Len(Schedule.Balance) = args.n + 1
        /\ \A i \in 1..(args.n + 1) :
              /\ Schedule.Year[i] = i - 1
              /\ Schedule.AnnualContribution[i] = args.c

\* a schedule returned for 0 periods: one record, of year 0
C6_Witness ==
    /\ ReportReturned /\ args.n = 0
    /\ Schedule.Year = <<0>>
    /\ ~IsZero(args.c)

\* C7 as stated: for identical p, c, r > 0 and periods > 0, project with
\* 'due' returns a value >= project with 'immediate', and the two returned
\* values are equal only when contribution == 0 (or periods == 0).
C7_Original ==
    (SavingsReturned /\ args.annuity = "due" /\ args.n > 0) =>
        /\ FLe(Project(args.n, "immediate").val, fv[1])
        /\ (fv[1] = Project(args.n, "immediate").val) => IsZero(args.c)

\* C7 as amended: for identical p, c, r > 0 and periods, project with 'due'
\* returns a value >= project with 'immediate', and the two are equal
\* whenever contribution == 0 or periods == 0 (they may also be equal for a
\* contribution > 0, when the extra interest is lost in the rounding to 2
\* decimals).
C7_DueAtLeastImmediate ==
    (SavingsReturned /\ args.annuity = "due") =>
        /\ FLe(Project(args.n, "immediate").val, fv[1])
        /\ (IsZero(args.c) \/ args.n = 0) => fv[1] = Project(args.n, "immediate").val

\* 'due' returned strictly more than 'immediate' does
C7_Witness ==
    /\ SavingsReturned /\ args.annuity = "due" /\ args.n > 0 /\ ~IsZero(args.c)
    /\ FLt(Project(args.n, "immediate").val, fv[1])

\* C8: project(p, c, 0, n, mode) ends in an error for every n >= 0 and
\* either timing mode; it never returns a number.
C8_ZeroRateRaises ==
    (SavingsCalled /\ IsZero(args.r)) =>
        /\ pc = "raised"
        /\ fv = << >>
        /\ exc /= "none"
        /\ ValidMode => exc = "ZeroDivisionError"

\* project raised ZeroDivisionError at rate 0, at 0 periods
C8_Witness ==
    /\ SavingsCalled /\ IsZero(args.r) /\ ValidMode /\ args.n = 0
    /\ pc = "raised" /\ exc = "ZeroDivisionError"

\* C9: if project fails for a year of the loop, buildSchedule fails at that
\* call and returns no schedule at all: no record, partial table or
\* partially filled column reaches the caller.
C9_NoPartialSchedule ==
    /\ (op = "report" /\ pc = "raised") =>
          /\ report = << >>
          /\ exc = Project(year, args.annuity).err
          /\ Len(balance) = year
    /\ (op = "report" /\ ~ValidInputs) => report = << >>
    /\ report /= << >> =>
          /\ pc = "returned" /\ exc = "none"
          /\ Len(Schedule.Balance) = args.n + 1

\* buildSchedule failed at rate 0, after it had appended the year
C9_Witness ==
    /\ op = "report" /\ pc = "raised" /\ IsZero(args.r) /\ ValidMode
    /\ args.n > 0
    /\ years = <<0>> /\ balance = << >> /\ report = << >>

\* the result printed under the notebook's example, in hundredths
RefFutureValueCents == 22319557

\* C10: project(1000, 5000, 0.07, 20, DUE) returns 223195.57.
C10_ReferenceValue ==
    (SavingsCalled /\ args = ArgsOf(Reference)) =>
        /\ pc = "returned"
        /\ fv = <<FromDecimal(RefFutureValueCents, 100)>>

\* the call of the example returned
C10_Witness ==
    /\ SavingsReturned /\ args = ArgsOf(Reference)
    /\ args.n = RefPeriods /\ args.annuity = "due"
    /\ fv /= << >>

\* rows 16 and 20 of the table printed under the notebook's example:
\* cumulative contributions in units, interest and balance in hundredths
RefCumulativeContributions20 == 100000
RefInterest20Cents == 1460158
RefBalance16Cents == 15215325
RefInterest16Cents == 995395

\* C11: buildSchedule(1000, 5000, 0.07, 20, DUE) has at year 20
\* cumulativeContributions == 100000, interest == 14601.58 and
\* balance == 223195.57, and at year 16 balance == 152153.25 and
\* interest == 9953.95.
C11_ReferenceRows ==
    (ReportReturned /\ args = ArgsOf(Reference)) =>
        /\ Schedule.CumulativeContributions[21] = FromInt(RefCumulativeContributions20)
        /\ Schedule.Interest[21] = FromDecimal(RefInterest20Cents, 100)
        /\ Schedule.Balance[21] = FromDecimal(RefFutureValueCents, 100)
        /\ Schedule.Balance[17] = FromDecimal(RefBalance16Cents, 100)
        /\ Schedule.Interest[17] = FromDecimal(RefInterest16Cents, 100)

\* C12 as stated: when the timing mode passed to retirement_savings is
\* neither 'immediate' nor 'due', the call silently completes with no
\* annuity term added: it returns the rounded compounded principal
\* p * (1 + r)^n instead of ending in an error.
C12_Original ==
    (SavingsCalled /\ ~ValidMode) =>
        /\ pc = "returned"
        /\ exc = "none"
        /\ fv = <<Round2(InitialDeposit(args.p, args.r, args.n))>>

\* C12 as amended: when the timing mode passed to retirement_savings is a
\* string that is neither 'immediate' nor 'due', the call ends in a
\* TypeError, for every rate (0 included) and every number of periods, and
\* returns no number.
C12_UnknownModeRaises ==
    (SavingsCalled /\ ~ValidMode) =>
        /\ pc = "raised"
        /\ exc = "TypeError"
        /\ fv = << >>

\* retirement_savings raised TypeError for an unknown mode, at a rate > 0,
\* several periods and a principal > 0
C12_Witness ==
    /\ SavingsCalled /\ args.annuity = "other"
    /\ ~IsZero(args.r) /\ ~IsZero(args.p) /\ args.n > 1
    /\ pc = "raised" /\ exc = "TypeError" /\ fv = << >>

\* C13: for every schedule built from principal >= 0, contribution >= 0,
\* rate > 0 and mode 'immediate' or 'due', interest[y] >= 0 for every year
\* y in 0..periods (a negative interest can arise only from a negative
\* rate).
C13_InterestNonNegative ==
    (ReportReturned /\ ValidInputs) =>
        \A i \in 1..(args.n + 1) : FLe(Zero, Schedule.Interest[i])

\* The incremental balance carried forward without rounding it each year:
\* b * (1 + r) + c for 'immediate', (b + c) * (1 + r) for 'due', from p.
RECURSIVE UnroundedIncrementalValue(_, _, _, _, _)
UnroundedIncrementalValue(p, c, r, y, annuity_type) ==
    IF y = 0 THEN p
    ELSE IF annuity_type = "immediate"
    THEN FAdd(FMul(UnroundedIncrementalValue(p, c, r, y - 1, annuity_type), FAdd(One, r)), c)
    ELSE FMul(FAdd(UnroundedIncrementalValue(p, c, r, y - 1, annuity_type), c), FAdd(One, r))

\* C14: an incremental schedule that advances the balance year by year from
\* the previous rounded balance can differ from the schedule of
\* retirement_savings_report, which recomputes the rounded closed form each
\* year (the witness is such a year), while without the per-year rounding
\* the two agree for every year: the balance carried forward unrounded, and
\* rounded to 2 decimals only where it is reported, is the balance of the
\* schedule.
C14_AgreeWithoutYearlyRounding ==
    (ReportReturned /\ ValidInputs) =>
        \A y \in 0..args.n :
            Round2(UnroundedIncrementalValue(args.p, args.c, args.r, y, args.annuity))
                = Schedule.Balance[y + 1]

\* a returned schedule with a year at which the balance advanced from the
\* previous rounded balance is below the balance of the schedule, although
\* the two started equal and agree without the per-year rounding
C14_Witness ==
    /\ ReportReturned /\ ValidInputs /\ ~IsZero(args.c)
    /\ IncrementalValue(args.p, args.c, args.r, 0, args.annuity) = Schedule.Balance[1]
    /\ \E y \in 1..args.n :
          /\ FLt(IncrementalValue(args.p, args.c, args.r, y, args.annuity),
                 Schedule.Balance[y + 1])
          /\ Round2(UnroundedIncrementalValue(args.p, args.c, args.r, y, args.annuity))
                = Schedule.Balance[y + 1]

\* C15: for principal >= 0, contribution >= 0, rate > 0 and mode
\* 'immediate' or 'due', the balances of a schedule are non-decreasing in
\* the year (balance[y] >= balance[y-1] for every 0 < y <= periods) and
\* balance[y] >= round(principal, 2) for every y: rounding each year's
\* closed-form value to 2 decimals never makes a later balance smaller than
\* an earlier one.
C15_BalancesNonDecreasing ==
    (ReportReturned /\ ValidInputs) =>
        \A i \in 1..(args.n + 1) :
            /\ FLe(Round2(args.p), Schedule.Balance[i])
            /\ (i > 1) => FLe(Schedule.Balance[i - 1], Schedule.Balance[i])

\* a returned schedule with a principal > 0 whose balance stays the same
\* from one year to the next, the growth being lost in the rounding, and
\* rises in a later year
C15_Witness ==
    /\ ReportReturned /\ ValidInputs /\ ~IsZero(args.p)
    /\ \E i, j \in 2..(args.n + 1) :
          /\ i < j
          /\ Schedule.Balance[i] = Schedule.Balance[i - 1]
          /\ FLt(Schedule.Balance[j - 1], Schedule.Balance[j])

====
